---------------------------- MODULE Spec2Model ----------------------------
(***************************************************************************)
(* A model of jsoncpp's OurReader (src/src/lib_json/json_reader.cpp): the   *)
(* byte cursor, the tokenizer, the string and number decoders, the          *)
(* recursive value parser with its error journal and recovery, and          *)
(* OurReader::parse.                                                        *)
(*                                                                          *)
(* A document is a sequence of bytes (their ASCII codes); an offset o in    *)
(* 0 .. Len(doc) stands for the pointer begin_ + o, so that begin_ is 0 and *)
(* end_ is Len(doc).  The call stack of readValue / readObject / readArray  *)
(* is the sequence `frames`; every action is the code between two calls of  *)
(* readToken (or a call of, or a return from, readValue).                   *)
(***************************************************************************)
EXTENDS Integers, Sequences, FiniteSets, TLC

(***************************************************************************)
(* Bytes that the reader's code names.                                      *)
(***************************************************************************)
NUL == 0
TAB == 9
LF == 10
CR == 13
SPACE == 32
DQUOTE == 34
SQUOTE == 39
STAR == 42
PLUS == 43
COMMA == 44
MINUS == 45
DOT == 46
SLASH == 47
DIGIT0 == 48
DIGIT9 == 57
COLON == 58
UpperA == 65
UpperE == 69
UpperF == 70
UpperI == 73
UpperN == 78
LBRACKET == 91
BACKSLASH == 92
RBRACKET == 93
LowerA == 97
LowerB == 98
LowerE == 101
LowerF == 102
LowerN == 110
LowerR == 114
LowerT == 116
LowerU == 117
LBRACE == 123
RBRACE == 125

\* Bytes with no meaning of their own to the reader, used in the documents
\* below: the letters g, j, k and x and the digits 1, 2 and 3.
LowerG == LowerF + 1
LowerJ == LowerF + 4
LowerK == LowerF + 5
LowerX == LowerU + 3
DIGIT1 == DIGIT0 + 1
DIGIT2 == DIGIT0 + 2
DIGIT3 == DIGIT0 + 3

VARIABLES
  doc,             \* the bytes [beginDoc, endDoc) handed to parse
  pastEnd,         \* the byte the memory holds at end_ (outside the document)
  signedOverflow,  \* what the build makes of a signed overflow: "wraps" | "traps"
  features,        \* Features features_ (const for the reader's life)
  collectArg,      \* the collectComments argument of parse
  collectComments, \* collectComments_
  current,         \* current_ - begin_
  lastValueEnd,    \* lastValueEnd_ - begin_, or -1 for the null pointer
  lastValue,       \* lastValue_: the path of a value, or <<-1>> for null
  commentsBefore,  \* commentsBefore_
  errors,          \* errors_
  nodes,           \* nodes_: a stack of value paths, top last
  root,            \* the Value tree under `root`: path -> node
  comments,        \* the comments attached to values: <<path, placement>> -> text
  frames,          \* the call stack below parse, top last
  status,          \* "ready" | "value" | "skip" | "done" | "fatal" | "aborted"
  successful,      \* parse's local `successful`
  result,          \* what parse returned
  calls,           \* the calls of parse made on this reader so far
  earlier          \* what the first call of parse gave its caller

vars == <<doc, pastEnd, signedOverflow, features, collectArg, collectComments, current,
          lastValueEnd, lastValue, commentsBefore, errors, nodes, root,
          comments, frames, status, successful, result, calls, earlier>>

(***************************************************************************)
(* The byte cursor.                                                         *)
(***************************************************************************)
End == Len(doc)

\* *p for begin_ <= p < end_; at end_ it is whatever the memory holds there.
At(o) == IF o < End THEN doc[o + 1] ELSE pastEnd

IsDigit(c) == c >= DIGIT0 /\ c <= DIGIT9

IsSpace(c) == c = SPACE \/ c = TAB \/ c = CR \/ c = LF

\* The cursor after getNextChar() called at cursor o.
NextCur(o) == IF o = End THEN o ELSE o + 1

\* What getNextChar() called at cursor o returns.
NextChar(o) == IF o = End THEN NUL ELSE doc[o + 1]

RECURSIVE skipSpaces(_)
skipSpaces(o) ==
  IF o # End /\ IsSpace(doc[o + 1]) THEN skipSpaces(o + 1) ELSE o

\* match(pattern, patternLength) at cursor o: <<matched, cursor after>>.
match(o, pattern) ==
  IF End - o < Len(pattern) THEN <<FALSE, o>>
  ELSE IF \A i \in 1 .. Len(pattern) : doc[o + i] = pattern[i]
       THEN <<TRUE, o + Len(pattern)>>
       ELSE <<FALSE, o>>

\* readString (quote = DQUOTE) and readStringSingleQuote (quote = SQUOTE),
\* entered at cursor o after the opening quote: <<closed, cursor after>>.
RECURSIVE readQuoted(_, _)
readQuoted(o, quote) ==
  IF o = End THEN <<FALSE, o>>
  ELSE LET c == doc[o + 1] IN
       IF c = BACKSLASH THEN readQuoted(NextCur(o + 1), quote)
       ELSE IF c = quote THEN <<TRUE, o + 1>>
       ELSE readQuoted(o + 1, quote)

readString(o) == readQuoted(o, DQUOTE)

readStringSingleQuote(o) == readQuoted(o, SQUOTE)

\* readCStyleComment entered at cursor o (after the two bytes that open it).
RECURSIVE readCStyleComment(_)
readCStyleComment(o) ==
  LET last(p) == IF p = End THEN <<FALSE, p>> ELSE <<doc[p + 1] = SLASH, p + 1>>
  IN IF o + 1 < End
     THEN IF doc[o + 1] = STAR /\ doc[o + 2] = SLASH
          THEN last(o + 1)
          ELSE readCStyleComment(o + 1)
     ELSE last(o)

RECURSIVE readCppStyleComment(_)
readCppStyleComment(o) ==
  IF o = End THEN <<TRUE, o>>
  ELSE LET c == doc[o + 1] IN
       IF c = LF THEN <<TRUE, o + 1>>
       ELSE IF c = CR
            THEN IF o + 1 # End /\ doc[o + 2] = LF
                 THEN <<TRUE, o + 2>>
                 ELSE <<TRUE, o + 1>>
       ELSE readCppStyleComment(o + 1)

\* readComment entered at cursor o, after the byte that opened the token:
\* <<successful, cursor after>>.  The attachment of the comment (addComment)
\* is the part of readToken's caller, see CommentEffect.
readComment(o) ==
  LET c == NextChar(o)
      p == NextCur(o)
  IN IF c = STAR THEN readCStyleComment(p)
     ELSE IF c = SLASH THEN readCppStyleComment(p)
     ELSE <<FALSE, p>>

\* The least q >= o with q = end_ or a byte that is no digit at q.
RECURSIVE skipDigits(_)
skipDigits(o) ==
  IF o < End /\ IsDigit(doc[o + 1]) THEN skipDigits(o + 1) ELSE o

\* c = (current_ = p) < end_ ? *p++ : '\0'
PeekOrNul(o) == IF o < End THEN doc[o + 1] ELSE NUL

\* readNumber(checkInf) entered at cursor o, after the first byte of the
\* token: <<result, cursor after>>.
readNumber(o, checkInf) ==
  IF checkInf /\ o # End /\ doc[o + 1] = UpperI THEN <<FALSE, o + 1>>
  ELSE LET q1 == skipDigits(o)
           q2 == IF PeekOrNul(q1) = DOT THEN skipDigits(q1 + 1) ELSE q1
           q3 == IF PeekOrNul(q2) = LowerE \/ PeekOrNul(q2) = UpperE
                 THEN LET s == q2 + 1
                          t == IF PeekOrNul(s) = PLUS \/ PeekOrNul(s) = MINUS
                               THEN s + 1 ELSE s
                      IN skipDigits(t)
                 ELSE q2
       IN <<TRUE, q3>>


(***************************************************************************)
(* The tokenizer.  A token is [type, offsetStart, offsetEnd]; readToken     *)
(* leaves current_ at begin_ + offsetEnd and always returns true.           *)
(***************************************************************************)
PatRue == <<114, 117, 101>>
PatAlse == <<97, 108, 115, 101>>
PatUll == <<117, 108, 108>>
PatAN == <<97, 78>>
PatNfinity == <<110, 102, 105, 110, 105, 116, 121>>

Token(type, s, okcur) ==
  [type |-> IF okcur[1] THEN type ELSE "Error",
   offsetStart |-> s, offsetEnd |-> okcur[2]]

readToken(o) ==
  LET s == skipSpaces(o)
      c == NextChar(s)
      p == NextCur(s)
      plain == <<TRUE, p>>
      bad == <<FALSE, p>>
      comment == Token("Comment", s, readComment(p))
  IN
  CASE c = LBRACE -> Token("ObjectBegin", s, plain)
    [] c = RBRACE -> Token("ObjectEnd", s, plain)
    [] c = LBRACKET -> Token("ArrayBegin", s, plain)
    [] c = RBRACKET -> Token("ArrayEnd", s, plain)
    [] c = DQUOTE -> Token("String", s, readString(p))
    [] c = SQUOTE ->
         IF features.allowSingleQuotes
         THEN Token("String", s, readStringSingleQuote(p))
         ELSE comment
    [] c = SLASH -> comment
    [] IsDigit(c) -> Token("Number", s, <<TRUE, readNumber(p, FALSE)[2]>>)
    [] c = MINUS ->
         LET n == readNumber(p, TRUE) IN
         IF n[1] THEN Token("Number", s, n)
         ELSE Token("NegInf", s,
                    IF features.allowSpecialFloats
                    THEN match(n[2], PatNfinity) ELSE <<FALSE, n[2]>>)
    [] c = LowerT -> Token("True", s, match(p, PatRue))
    [] c = LowerF -> Token("False", s, match(p, PatAlse))
    [] c = LowerN -> Token("Null", s, match(p, PatUll))
    [] c = UpperN ->
         IF features.allowSpecialFloats
         THEN Token("NaN", s, match(p, PatAN)) ELSE Token("Error", s, bad)
    [] c = UpperI ->
         IF features.allowSpecialFloats
         THEN Token("PosInf", s, match(p, PatNfinity)) ELSE Token("Error", s, bad)
    [] c = COMMA -> Token("ArraySeparator", s, plain)
    [] c = COLON -> Token("MemberSeparator", s, plain)
    [] c = NUL -> Token("EndOfStream", s, plain)
    [] OTHER -> Token("Error", s, bad)

\* The bytes [begin_ + s, begin_ + e) of the document.
Bytes(s, e) == SubSeq(doc, s + 1, e)

\* containsNewLine(begin_ + s, begin_ + e)
containsNewLine(s, e) == \E i \in s + 1 .. e : doc[i] = LF \/ doc[i] = CR

\* normalizeEOL(begin_ + s, begin_ + e)
RECURSIVE normalizeEOL(_, _)
normalizeEOL(s, e) ==
  IF s >= e THEN <<>>
  ELSE LET c == doc[s + 1] IN
       IF c = CR
       THEN <<LF>> \o normalizeEOL(IF s + 1 # e /\ doc[s + 2] = LF
                                   THEN s + 2 ELSE s + 1, e)
       ELSE <<c>> \o normalizeEOL(s + 1, e)

(***************************************************************************)
(* The error journal.                                                       *)
(***************************************************************************)
NoLocation == [line |-> 0, column |-> 0]

\* The loop of getLocationLineAndColumn: `cur` is its current, `lls` its
\* lastLineStart, `line` its location.line_.  After a CR the code reads
\* *current without comparing current with end_.
RECURSIVE locateLoop(_, _, _, _)
locateLoop(cur, lls, line, offset) ==
  IF cur < offset /\ cur # End
  THEN LET c == doc[cur + 1] IN
       IF c = CR
       THEN LET n == IF At(cur + 1) = LF THEN cur + 2 ELSE cur + 1
            IN locateLoop(n, n, line + 1, offset)
       ELSE IF c = LF THEN locateLoop(cur + 1, cur + 1, line + 1, offset)
       ELSE locateLoop(cur + 1, lls, line, offset)
  ELSE [line |-> line + 1, column |-> (offset - lls) + 1]

getLocationLineAndColumn(offset) == locateLoop(0, 0, 0, offset)

\* The ErrorInfo that addError(message, token, extra) appends, with the
\* locations that getFormattedErrorMessages computes for it; extra = -1
\* stands for the null pointer.  `arg` holds the bytes a message quotes.
ErrorInfo(message, arg, token, extra) ==
  [message |-> message, arg |-> arg,
   offsetStart |-> token.offsetStart, extraOffset |-> extra,
   token |-> getLocationLineAndColumn(token.offsetStart),
   extra |-> IF extra >= 0 THEN getLocationLineAndColumn(extra) ELSE NoLocation]

addError(errs, message, arg, token, extra) ==
  Append(errs, ErrorInfo(message, arg, token, extra))

(***************************************************************************)
(* The string decoder.  A decoding result is                                *)
(* [ok, out, message, extra]: the decoded bytes, or the message of the      *)
(* error and the offset of its `extra` location.                            *)
(***************************************************************************)
Decoded(out) == [ok |-> TRUE, out |-> out, message |-> "", extra |-> -1]

DecodeError(message, extra) ==
  [ok |-> FALSE, out |-> <<>>, message |-> message, extra |-> extra]

\* The value of one hexadecimal digit, or -1.
HexValue(c) ==
  IF c >= DIGIT0 /\ c <= DIGIT9 THEN c - DIGIT0
  ELSE IF c >= LowerA /\ c <= LowerF THEN c - LowerA + 10
  ELSE IF c >= UpperA /\ c <= UpperF THEN c - UpperA + 10
  ELSE -1

\* decodeUnicodeEscapeSequence(token, current, end, ret_unicode) with
\* current = begin_ + cur and end = begin_ + e:
\* [ok, unicode, cur, message, extra].
decodeUnicodeEscapeSequence(cur, e) ==
  LET bad(i) == HexValue(doc[cur + i]) < 0
      acc[i \in 0 .. 4] ==
        IF i = 0 THEN 0 ELSE acc[i - 1] * 16 + HexValue(doc[cur + i])
  IN IF e - cur < 4
     THEN [ok |-> FALSE, unicode |-> 0, cur |-> cur,
           message |-> "Bad unicode escape sequence in string: four digits expected.",
           extra |-> cur]
     ELSE IF \E i \in 1 .. 4 : bad(i)
     THEN LET i == CHOOSE i \in 1 .. 4 : bad(i) /\ \A j \in 1 .. i - 1 : ~bad(j)
          IN [ok |-> FALSE, unicode |-> 0, cur |-> cur + i,
              message |-> "Bad unicode escape sequence in string: hexadecimal digit expected.",
              extra |-> cur + i]
     ELSE [ok |-> TRUE, unicode |-> acc[4], cur |-> cur + 4,
           message |-> "", extra |-> -1]

HighSurrogateFirst == 55296
HighSurrogateLast == 56319
SurrogateBase == 65536

\* decodeUnicodeCodePoint(token, current, end, unicode)
decodeUnicodeCodePoint(cur, e) ==
  LET first == decodeUnicodeEscapeSequence(cur, e)
      c == first.cur
  IN IF ~first.ok THEN first
     ELSE IF first.unicode >= HighSurrogateFirst /\ first.unicode <= HighSurrogateLast
     THEN IF e - c < 6
          THEN [first EXCEPT !.ok = FALSE,
                  !.message = "additional six characters expected to parse unicode surrogate pair.",
                  !.extra = c]
          ELSE IF doc[c + 1] = BACKSLASH /\ doc[c + 2] = LowerU
          THEN LET second == decodeUnicodeEscapeSequence(c + 2, e)
               IN IF second.ok
                  THEN [second EXCEPT !.unicode =
                          SurrogateBase + ((first.unicode % 1024) * 1024)
                            + (second.unicode % 1024)]
                  ELSE second
          ELSE LET n == IF doc[c + 1] = BACKSLASH THEN c + 2 ELSE c + 1
               IN [first EXCEPT !.ok = FALSE,
                     !.message = "expecting another \\u token to begin the second half of a unicode surrogate pair",
                     !.extra = n, !.cur = n]
     ELSE first

\* codePointToUTF8 (json_tool.h): the 1 to 4 byte encoding of a code point.
codePointToUTF8(cp) ==
  IF cp <= 127 THEN <<cp>>
  ELSE IF cp <= 2047 THEN <<192 + (cp \div 64), 128 + (cp % 64)>>
  ELSE IF cp <= 65535
  THEN <<224 + (cp \div 4096), 128 + ((cp \div 64) % 64), 128 + (cp % 64)>>
  ELSE IF cp <= 1114111
  THEN <<240 + (cp \div 262144), 128 + ((cp \div 4096) % 64),
         128 + ((cp \div 64) % 64), 128 + (cp % 64)>>
  ELSE <<>>

\* The byte an escape letter stands for, or -1.
EscapeByte(c) ==
  CASE c = DQUOTE -> DQUOTE
    [] c = SLASH -> SLASH
    [] c = BACKSLASH -> BACKSLASH
    [] c = LowerB -> 8
    [] c = LowerF -> 12
    [] c = LowerN -> LF
    [] c = LowerR -> CR
    [] c = LowerT -> TAB
    [] OTHER -> -1

\* The loop of decodeString(token, decoded): cur is its current, e its end,
\* out the bytes decoded so far.
RECURSIVE decodeLoop(_, _, _)
decodeLoop(cur, e, out) ==
  IF cur = e THEN Decoded(out)
  ELSE LET c == doc[cur + 1] IN
       IF c = DQUOTE THEN Decoded(out)
       ELSE IF c = BACKSLASH
       THEN IF cur + 1 = e
            THEN DecodeError("Empty escape sequence in string", cur + 1)
            ELSE LET escape == doc[cur + 2] IN
                 IF escape = LowerU
                 THEN LET u == decodeUnicodeCodePoint(cur + 2, e)
                      IN IF u.ok
                         THEN decodeLoop(u.cur, e, out \o codePointToUTF8(u.unicode))
                         ELSE DecodeError(u.message, u.extra)
                 ELSE IF EscapeByte(escape) >= 0
                 THEN decodeLoop(cur + 2, e, Append(out, EscapeByte(escape)))
                 ELSE DecodeError("Bad escape sequence in string", cur + 2)
       ELSE decodeLoop(cur + 1, e, Append(out, c))

\* decodeString(token, decoded)
decodeString(token) ==
  decodeLoop(token.offsetStart + 1, token.offsetEnd - 1, <<>>)

(***************************************************************************)
(* The number decoder.  The accumulator `value` (a LargestUInt) and the     *)
(* limits it is compared with are decimal numerals: sequences of the digits *)
(* 0 .. 9, most significant first, without leading zeros (zero is <<>>), so *)
(* that no width of the checker's own integers bounds them.                 *)
(***************************************************************************)
\* Value::maxLargestUInt, LargestUInt(-Value::minLargestInt) and
\* Value::maxInt.  json/value.h defines them; they are taken here as the
\* maximum of the widest unsigned integer, the magnitude of the minimum of
\* the widest signed integer and the maximum of the widest signed integer,
\* the integers being 64 bits wide.
maxLargestUInt == <<1, 8, 4, 4, 6, 7, 4, 4, 0, 7, 3, 7, 0, 9, 5, 5, 1, 6, 1, 5>>
negMinLargestInt == <<9, 2, 2, 3, 3, 7, 2, 0, 3, 6, 8, 5, 4, 7, 7, 5, 8, 0, 8>>
maxInt == <<9, 2, 2, 3, 3, 7, 2, 0, 3, 6, 8, 5, 4, 7, 7, 5, 8, 0, 7>>

\* a < b for two numerals.
RECURSIVE NumLess(_, _)
NumLess(a, b) ==
  IF Len(a) # Len(b) THEN Len(a) < Len(b)
  ELSE IF a = <<>> THEN FALSE
  ELSE IF Head(a) # Head(b) THEN Head(a) < Head(b)
  ELSE NumLess(Tail(a), Tail(b))

NumLeq(a, b) == a = b \/ NumLess(a, b)

\* value * 10 + digit
NumShift(value, digit) ==
  IF value = <<>> /\ digit = 0 THEN <<>> ELSE Append(value, digit)

\* The decimal text of a numeral (valueToString).
NumText(value) ==
  IF value = <<>> THEN <<DIGIT0>>
  ELSE [i \in 1 .. Len(value) |-> DIGIT0 + value[i]]

NumberResult(type, val) ==
  [ok |-> TRUE, type |-> type, val |-> val, message |-> "", arg |-> <<>>]

\* sscanf(buffer, "%lf", &value) == 1 on the bytes of a Number token: the
\* text up to the first byte that cannot continue a decimal floating
\* constant must be one (digits in the mantissa; digits in the exponent
\* when there is one).
ScansAsDouble(s, e) ==
  LET m0 == IF s < e /\ doc[s + 1] = MINUS THEN s + 1 ELSE s
      m1 == skipDigits(m0)
      m2 == IF m1 < e /\ doc[m1 + 1] = DOT THEN skipDigits(m1 + 1) ELSE m1
      mantissa == (m1 - m0) + (IF m2 > m1 THEN m2 - m1 - 1 ELSE 0)
      hasExp == m2 < e /\ (doc[m2 + 1] = LowerE \/ doc[m2 + 1] = UpperE)
      x0 == IF m2 + 1 < e /\ (doc[m2 + 2] = PLUS \/ doc[m2 + 2] = MINUS)
            THEN m2 + 2 ELSE m2 + 1
  IN mantissa > 0 /\ (hasExp => skipDigits(x0) > x0)

\* decodeDouble(token, decoded).  The double is kept as the text it was
\* scanned from.
decodeDouble(token) ==
  IF ScansAsDouble(token.offsetStart, token.offsetEnd)
  THEN NumberResult("real", Bytes(token.offsetStart, token.offsetEnd))
  ELSE [ok |-> FALSE, type |-> "null", val |-> <<>>,
        message |-> "'<literal>' is not a number.",
        arg |-> Bytes(token.offsetStart, token.offsetEnd)]

\* The loop of decodeNumber(token, decoded): <<TRUE, value>> when it runs to
\* the end of the token, <<FALSE, <<>>>> when it leaves for decodeDouble.
RECURSIVE integerLoop(_, _, _, _)
integerLoop(cur, e, value, maxIntegerValue) ==
  LET threshold == SubSeq(maxIntegerValue, 1, Len(maxIntegerValue) - 1)
      lastDigit == maxIntegerValue[Len(maxIntegerValue)]
      c == doc[cur + 1]
      digit == c - DIGIT0
  IN IF cur >= e THEN <<TRUE, value>>
     ELSE IF c < DIGIT0 \/ c > DIGIT9 THEN <<FALSE, <<>>>>
     ELSE IF NumLeq(threshold, value)
             /\ (NumLess(threshold, value) \/ cur + 1 # e \/ digit > lastDigit)
     THEN <<FALSE, <<>>>>
     ELSE integerLoop(cur + 1, e, NumShift(value, digit), maxIntegerValue)

\* A maximum that is the signed one whatever the sign of the token.
maxIntegerSigned(isNegative) == negMinLargestInt

\* maxIntegerValue = isNegative ? Value::LargestUInt(-Value::minLargestInt)
\*                              : Value::maxLargestUInt
maxIntegerValue(isNegative) ==
  IF isNegative THEN negMinLargestInt ELSE maxLargestUInt

\* decoded = -Value::LargestInt(value).  For value = 2^63 the conversion
\* gives the minimum of LargestInt, and its negation overflows: the
\* behaviour is undefined, the build either wraps to the minimum again or
\* traps.
negate(value) ==
  IF value = negMinLargestInt /\ signedOverflow = "traps"
  THEN [ok |-> FALSE, type |-> "trap", val |-> <<>>, message |-> "", arg |-> <<>>]
  ELSE NumberResult("int", IF value = <<>> THEN NumText(value)
                           ELSE <<MINUS>> \o NumText(value))

\* value <= Value::LargestUInt(Value::maxInt)
fitsMaxInt(value) == NumLeq(value, maxInt)

\* decodeNumber(token, decoded): [ok, type, val, message, arg].  An integer
\* is kept as its decimal text.
decodeNumber(token) ==
  LET isNegative == doc[token.offsetStart + 1] = MINUS
      first == IF isNegative THEN token.offsetStart + 1 ELSE token.offsetStart
      r == integerLoop(first, token.offsetEnd, <<>>, maxIntegerValue(isNegative))
      value == r[2]
  IN IF ~r[1] THEN decodeDouble(token)
     ELSE IF isNegative THEN negate(value)
     ELSE IF fitsMaxInt(value) THEN NumberResult("int", NumText(value))
     ELSE NumberResult("uint", NumText(value))

(***************************************************************************)
(* The Value tree.  A value is named by its path from the root: a sequence  *)
(* of steps, <<0>> \o name for the member `name` of an object and <<1, i>>  *)
(* for the element i of an array.  A node holds the payload (type, val) and *)
(* the offsets; swapPayload replaces the payload, and with it the members   *)
(* or elements, and leaves the offsets and the comments of the value.       *)
(***************************************************************************)
NullNode == [type |-> "null", val |-> <<>>, offsetStart |-> 0, offsetLimit |-> 0]

MemberStep(name) == <<0>> \o name

ElementStep(index) == <<1, index>>

Below(path, q) == Len(path) < Len(q) /\ SubSeq(q, 1, Len(path)) = path

swapPayload(tree, path, type, val) ==
  [q \in {q \in DOMAIN tree : ~Below(path, q)} |->
     IF q = path THEN [tree[q] EXCEPT !.type = type, !.val = val] ELSE tree[q]]

setOffsetStart(tree, path, o) == [tree EXCEPT ![path].offsetStart = o]

setOffsetLimit(tree, path, o) == [tree EXCEPT ![path].offsetLimit = o]

\* Value::operator[]: the member or element, created null when absent.
Subscript(tree, path) ==
  IF path \in DOMAIN tree THEN tree
  ELSE [q \in DOMAIN tree \cup {path} |-> IF q = path THEN NullNode ELSE tree[q]]

\* Value::setComment(text, placement) on the value at `path`.
setComment(cm, path, placement, text) ==
  [k \in DOMAIN cm \cup {<<path, placement>>} |->
     IF k = <<path, placement>> THEN text ELSE cm[k]]

\* The comments that are left when the values below `path` are destroyed.
DropBelow(cm, path) == [k \in {k \in DOMAIN cm : ~Below(path, k[1])} |-> cm[k]]

NoPath == <<<<-1>>>>

(***************************************************************************)
(* The reader's state as a record, and the steps of the code as operators   *)
(* from state to state.                                                     *)
(***************************************************************************)
Here ==
  [collectComments |-> collectComments, current |-> current,
   lastValueEnd |-> lastValueEnd, lastValue |-> lastValue,
   commentsBefore |-> commentsBefore, errors |-> errors, nodes |-> nodes,
   root |-> root, comments |-> comments, frames |-> frames,
   status |-> status, successful |-> successful, result |-> result]

Becomes(st) ==
  /\ collectComments' = st.collectComments
  /\ current' = st.current
  /\ lastValueEnd' = st.lastValueEnd
  /\ lastValue' = st.lastValue
  /\ commentsBefore' = st.commentsBefore
  /\ errors' = st.errors
  /\ nodes' = st.nodes
  /\ root' = st.root
  /\ comments' = st.comments
  /\ frames' = st.frames
  /\ status' = st.status
  /\ successful' = st.successful
  /\ result' = st.result
  /\ UNCHANGED <<doc, pastEnd, signedOverflow, features, collectArg, calls, earlier>>

NoToken == [type |-> "Error", offsetStart |-> 0, offsetEnd |-> 0]

\* The locals of one call of readValue, with those of the readObject or
\* readArray it is in: where it is, readObject's tokenName and name,
\* readArray's index, recoverFromError's skipUntilToken, and the result of
\* the readValue it called.
NewFrame ==
  [pc |-> "enter", tokenName |-> NoToken, name |-> <<>>, index |-> 0,
   skipUntilToken |-> "", ok |-> TRUE]

Top(st) == st.frames[Len(st.frames)]

Goto(st, pc) == [st EXCEPT !.frames[Len(st.frames)].pc = pc]

currentValue(st) == st.nodes[Len(st.nodes)]

\* A placement that never looks at the value before the comment.
placementBefore(st, tok) == "commentBefore"

\* readComment's choice of a placement for the comment token tok.
placementOf(st, tok) ==
  IF /\ st.lastValueEnd >= 0
     /\ ~containsNewLine(st.lastValueEnd, tok.offsetStart)
     /\ \/ doc[tok.offsetStart + 2] # STAR
        \/ ~containsNewLine(tok.offsetStart, tok.offsetEnd)
  THEN "commentAfterOnSameLine"
  ELSE "commentBefore"

\* addComment(begin, end, placement)
addComment(st, s, e, placement) ==
  IF placement = "commentAfterOnSameLine"
  THEN [st EXCEPT !.comments =
          setComment(st.comments, st.lastValue, placement, normalizeEOL(s, e))]
  ELSE [st EXCEPT !.commentsBefore = st.commentsBefore \o normalizeEOL(s, e)]

\* The state after readToken(token) returned tok: the cursor is at the end
\* of the token and a comment, when comments are collected, is attached.
Took(st, tok) ==
  LET moved == [st EXCEPT !.current = tok.offsetEnd]
  IN IF tok.type = "Comment" /\ st.collectComments
     THEN addComment(moved, tok.offsetStart, tok.offsetEnd, placementOf(st, tok))
     ELSE moved

\* An addError whose push_back is lost.
addErrorLost(st, message, arg, token, extra) == st

Journal(st, message, arg, token, extra) ==
  [st EXCEPT !.errors = addError(st.errors, message, arg, token, extra)]

\* return from readValue with the value ok: to readObject or readArray, or
\* to parse.
Return(st, ok) ==
  LET n == Len(st.frames) IN
  IF n = 1
  THEN [st EXCEPT !.frames = <<>>, !.status = "skip", !.successful = ok]
  ELSE [st EXCEPT !.frames = [SubSeq(st.frames, 1, n - 1) EXCEPT ![n - 1].ok = ok]]

\* The end of readValue after its switch: lastValueEnd_ and lastValue_.
Finish(st, ok) ==
  Return(IF st.collectComments
         THEN [st EXCEPT !.lastValueEnd = st.current,
                         !.lastValue = currentValue(st)]
         ELSE st, ok)

\* readObject or readArray returned ok to readValue.
ContainerDone(st, ok) ==
  Finish([st EXCEPT !.root = setOffsetLimit(st.root, currentValue(st), st.current)], ok)

\* A scalar token: the payload and the offsets of the token.
Install(st, type, val, tok) ==
  LET path == currentValue(st) IN
  [st EXCEPT
     !.root = setOffsetLimit(setOffsetStart(swapPayload(st.root, path, type, val),
                                            path, tok.offsetStart),
                             path, tok.offsetEnd),
     !.comments = DropBelow(st.comments, path)]

\* The entry of recoverFromError(skipUntilToken).
recoverFromError(st, skipUntilToken) ==
  [st EXCEPT !.frames[Len(st.frames)].pc = "recover",
             !.frames[Len(st.frames)].skipUntilToken = skipUntilToken]

addErrorAndRecover(st, message, arg, token, skipUntilToken) ==
  recoverFromError(Journal(st, message, arg, token, -1), skipUntilToken)

\* The trap of a signed overflow ends the process.
Abort(st) == [st EXCEPT !.status = "aborted", !.frames = <<>>]

\* nodes_.push(&value); readValue(): the caller waits at `back`.
Call(st, path, back) ==
  [st EXCEPT !.root = Subscript(st.root, path),
             !.nodes = Append(st.nodes, path),
             !.frames = Append([st.frames EXCEPT ![Len(st.frames)].pc = back],
                               NewFrame)]

(***************************************************************************)
(* readValue.                                                               *)
(***************************************************************************)
\* A cursor that stays behind the delimiter.
rewindMissing(cur) == cur

\* A cursor taken back to the byte before the delimiter.
rewindBeforeDelimiter(cur) == cur - 2

\* current_--
rewind(cur) == cur - 1

\* The switch of readValue on the token tok, in the state st reached after
\* skipCommentTokens and the attachment of commentsBefore_.
readValueSwitch(st, tok) ==
  LET path == currentValue(st)
      opened(type) ==
        [st EXCEPT !.root = setOffsetStart(swapPayload(st.root, path, type, <<>>),
                                           path, tok.offsetStart),
                   !.comments = DropBelow(st.comments, path)]
      syntaxError ==
        Return(Journal([st EXCEPT !.root =
                          setOffsetLimit(setOffsetStart(st.root, path, tok.offsetStart),
                                         path, tok.offsetEnd)],
                       "Syntax error: value, object or array expected.", <<>>, tok, -1),
               FALSE)
  IN
  CASE tok.type = "ObjectBegin" ->
         [Goto(opened("object"), "objectName") EXCEPT
            !.frames[Len(st.frames)].name = <<>>]
    [] tok.type = "ArrayBegin" -> Goto(opened("array"), "arrayBegin")
    [] tok.type = "Number" ->
         LET n == decodeNumber(tok) IN
         IF n.ok THEN Finish(Install(st, n.type, n.val, tok), TRUE)
         ELSE IF n.type = "trap" THEN Abort(st)
         ELSE Finish(Journal(st, n.message, n.arg, tok, -1), FALSE)
    [] tok.type = "String" ->
         LET d == decodeString(tok) IN
         IF d.ok THEN Finish(Install(st, "string", d.out, tok), TRUE)
         ELSE Finish(Journal(st, d.message, <<>>, tok, d.extra), FALSE)
    [] tok.type = "True" -> Finish(Install(st, "boolean", <<1>>, tok), TRUE)
    [] tok.type = "False" -> Finish(Install(st, "boolean", <<0>>, tok), TRUE)
    [] tok.type = "Null" -> Finish(Install(st, "null", <<>>, tok), TRUE)
    [] tok.type = "NaN" -> Finish(Install(st, "real", PatAN, tok), TRUE)
    [] tok.type = "PosInf" -> Finish(Install(st, "real", PatNfinity, tok), TRUE)
    [] tok.type = "NegInf" ->
         Finish(Install(st, "real", <<MINUS>> \o PatNfinity, tok), TRUE)
    [] tok.type \in {"ArraySeparator", "ObjectEnd", "ArrayEnd"} ->
         IF features.allowDroppedNullPlaceholders
         THEN LET back == rewind(st.current) IN
              Finish([st EXCEPT
                        !.current = back,
                        !.root = setOffsetLimit(
                                   setOffsetStart(swapPayload(st.root, path, "null", <<>>),
                                                  path, back - 1),
                                   path, back),
                        !.comments = DropBelow(st.comments, path)],
                     TRUE)
         ELSE syntaxError
    [] OTHER -> syntaxError

\* The entry of readValue: the guard on the depth of nodes_.  The fatal
\* error is an exception: it unwinds the calls and leaves nodes_ as it is.
\* A depth guard that lets one value less through.
stackLimitReached(st) == Len(st.nodes) >= features.stackLimit

\* static_cast<int>(nodes_.size()) > features_.stackLimit_
stackLimitExceeded(st) == Len(st.nodes) > features.stackLimit

ReadValueEnterStep ==
  IF stackLimitExceeded(Here)
  THEN [Here EXCEPT !.status = "fatal", !.frames = <<>>]
  ELSE Goto(Here, "token")

ReadValueEnter ==
  /\ status = "value"
  /\ Top(Here).pc = "enter"
  /\ Becomes(ReadValueEnterStep)

\* A loop that skips comments whether or not they are allowed.
anyComment(tok) == tok.type = "Comment"

\* skipCommentTokens reads on after the token tok:
\* features_.allowComments_ and token.type_ == tokenComment.
commentToSkip(tok) == features.allowComments /\ tok.type = "Comment"

\* One readToken of skipCommentTokens in readValue and, after the last one,
\* the rest of readValue up to its return or to the first step of
\* readObject or readArray.
ReadValueTokenStep ==
  LET tok == readToken(current)
      took == Took(Here, tok)
      attached ==
        IF took.collectComments /\ took.commentsBefore # <<>>
        THEN [took EXCEPT
                !.comments = setComment(took.comments, currentValue(took),
                                        "commentBefore", took.commentsBefore),
                !.commentsBefore = <<>>]
        ELSE took
  IN IF commentToSkip(tok)
     THEN took
     ELSE readValueSwitch(attached, tok)

ReadValueToken ==
  /\ status = "value"
  /\ Top(Here).pc = "token"
  /\ Becomes(ReadValueTokenStep)

(***************************************************************************)
(* readObject.                                                              *)
(***************************************************************************)
\* The head of readObject's loop: one readToken(tokenName) and, when the
\* token is no comment, the code up to readToken(colon).
ReadObjectNameStep ==
  LET tok == readToken(current)
      took == [Took(Here, tok) EXCEPT !.frames[Len(frames)].tokenName = tok]
      named(name) ==
        [Goto(took, "objectColon") EXCEPT !.frames[Len(frames)].name = name]
      unnamed == named(<<>>)
  IN
  IF tok.type = "Comment" THEN Goto(took, "objectNameComment")
  ELSE IF tok.type = "ObjectEnd" /\ Top(Here).name = <<>>
  THEN ContainerDone(took, TRUE)
  ELSE IF tok.type = "String"
  THEN LET d == decodeString(tok) IN
       IF d.ok THEN named(d.out)
       ELSE recoverFromError(
                      Journal(unnamed, d.message, <<>>, tok, d.extra), "ObjectEnd")
  ELSE IF tok.type = "Number" /\ features.allowNumericKeys
  THEN LET n == decodeNumber(tok) IN
       IF n.ok THEN named(n.val)
       ELSE IF n.type = "trap" THEN Abort(unnamed)
       ELSE recoverFromError(
                      Journal(unnamed, n.message, n.arg, tok, -1), "ObjectEnd")
  ELSE addErrorAndRecover(unnamed, "Missing '}' or object member name",
                                  <<>>, tok, "ObjectEnd")

ReadObjectName ==
  /\ status = "value"
  /\ Top(Here).pc \in {"objectName", "objectNameComment"}
  /\ Becomes(ReadObjectNameStep)

\* A membership test that finds no key.
isMemberOfNone(st, member) == FALSE

\* currentValue().isMember(name), for the path `member` of that member.
isMember(st, member) == member \in DOMAIN st.root

\* readToken(colon), the duplicate-key check and the call of readValue for
\* the member.
ReadObjectColonStep ==
  LET tok == readToken(current)
      took == Took(Here, tok)
      name == Top(Here).name
      member == Append(currentValue(Here), MemberStep(name))
  IN
  IF tok.type # "MemberSeparator"
  THEN addErrorAndRecover(took, "Missing ':' after object member name",
                          <<>>, tok, "ObjectEnd")
  ELSE IF features.rejectDupKeys /\ isMember(Here, member)
  THEN addErrorAndRecover(took, "Duplicate key: '<key>'", name,
                          Top(Here).tokenName, "ObjectEnd")
  ELSE Call(took, member, "objectValue")

ReadObjectColon ==
  /\ status = "value"
  /\ Top(Here).pc = "objectColon"
  /\ Becomes(ReadObjectColonStep)

\* What readObject does with the token that follows a member, once it is no
\* comment.
afterMember(st, tok) ==
  IF tok.type = "ObjectEnd" THEN ContainerDone(st, TRUE) ELSE Goto(st, "objectName")

\* readValue returned to readObject: nodes_.pop() and readToken(comma).
ReadObjectValueStep ==
  LET popped == [Here EXCEPT !.nodes = SubSeq(nodes, 1, Len(nodes) - 1)]
      tok == readToken(current)
      took == Took(popped, tok)
  IN
  IF ~Top(Here).ok THEN recoverFromError(popped, "ObjectEnd")
  ELSE IF tok.type \notin {"ObjectEnd", "ArraySeparator", "Comment"}
  THEN addErrorAndRecover(took, "Missing ',' or '}' in object declaration",
                                  <<>>, tok, "ObjectEnd")
  ELSE IF tok.type = "Comment" THEN Goto(took, "objectCommaComment")
  ELSE afterMember(took, tok)

ReadObjectValue ==
  /\ status = "value"
  /\ Top(Here).pc = "objectValue"
  /\ Becomes(ReadObjectValueStep)

\* The loop that reads on while the token after a member is a comment.
ReadObjectCommaCommentStep ==
  LET tok == readToken(current)
      took == Took(Here, tok)
  IN IF tok.type = "Comment" THEN took
     ELSE afterMember(took, tok)

ReadObjectCommaComment ==
  /\ status = "value"
  /\ Top(Here).pc = "objectCommaComment"
  /\ Becomes(ReadObjectCommaCommentStep)

(***************************************************************************)
(* readArray.                                                               *)
(***************************************************************************)
\* Value& value = currentValue()[index++]; nodes_.push(&value); readValue()
callElement(st) ==
  LET index == Top(st).index
      called == Call(st, Append(currentValue(st), ElementStep(index)), "arrayValue")
  IN [called EXCEPT !.frames[Len(st.frames)].index = index + 1]

\* The start of readArray: skipSpaces, then the empty array or the call of
\* readValue for the element 0.
ReadArrayBeginStep ==
  LET o == skipSpaces(current)
      skipped == [Here EXCEPT !.current = o, !.frames[Len(frames)].index = 0]
  IN IF o # End /\ doc[o + 1] = RBRACKET
     THEN ContainerDone(Took(skipped, readToken(o)), TRUE)
     ELSE callElement(skipped)

ReadArrayBegin ==
  /\ status = "value"
  /\ Top(Here).pc = "arrayBegin"
  /\ Becomes(ReadArrayBeginStep)

\* What readArray does with the token that follows an element, once it is
\* no comment.
afterElement(st, tok) ==
  IF tok.type # "ArraySeparator" /\ tok.type # "ArrayEnd"
  THEN addErrorAndRecover(st, "Missing ',' or ']' in array declaration",
                          <<>>, tok, "ArrayEnd")
  ELSE IF tok.type = "ArrayEnd" THEN ContainerDone(st, TRUE)
  ELSE callElement(st)

\* readValue returned to readArray: nodes_.pop() and readToken(token).
ReadArrayValueStep ==
  LET popped == [Here EXCEPT !.nodes = SubSeq(nodes, 1, Len(nodes) - 1)]
      tok == readToken(current)
      took == Took(popped, tok)
  IN
  IF ~Top(Here).ok THEN recoverFromError(popped, "ArrayEnd")
  ELSE IF tok.type = "Comment" THEN Goto(took, "arrayComment")
  ELSE afterElement(took, tok)

ReadArrayValue ==
  /\ status = "value"
  /\ Top(Here).pc = "arrayValue"
  /\ Becomes(ReadArrayValueStep)

\* The loop that reads on while the token after an element is a comment.
ReadArrayCommentStep ==
  LET tok == readToken(current)
      took == Took(Here, tok)
  IN IF tok.type = "Comment" THEN took
     ELSE afterElement(took, tok)

ReadArrayComment ==
  /\ status = "value"
  /\ Top(Here).pc = "arrayComment"
  /\ Becomes(ReadArrayCommentStep)

(***************************************************************************)
(* recoverFromError: one readToken(skip) of its loop.  readToken returns    *)
(* true and appends no error, so that errors_.resize(errorCount) changes    *)
(* nothing.                                                                 *)
(***************************************************************************)
\* A loop that looks only for the token it skips to.
recoverStopsAtTokenOnly(tok, skipUntilToken) == tok.type = skipUntilToken

\* skip.type_ == skipUntilToken || skip.type_ == tokenEndOfStream
recoverStops(tok, skipUntilToken) ==
  tok.type = skipUntilToken \/ tok.type = "EndOfStream"

RecoverStep ==
  LET tok == readToken(current)
      took == Took(Here, tok)
  IN IF recoverStops(tok, Top(Here).skipUntilToken)
     THEN ContainerDone(took, FALSE)
     ELSE took

Recover ==
  /\ status = "value"
  /\ Top(Here).pc = "recover"
  /\ Becomes(RecoverStep)

(***************************************************************************)
(* parse.                                                                   *)
(***************************************************************************)
\* A push of the root on the values that an earlier call left.
pushRoot(ns) == Append(ns, <<>>)

\* while (!nodes_.empty()) nodes_.pop(); nodes_.push(&root);
resetNodes(ns) == << <<>> >>

\* parse up to its call of readValue.
ParseBeginStep ==
  [Here EXCEPT
     !.collectComments = collectArg /\ features.allowComments,
     !.current = 0,
     !.lastValueEnd = -1,
     !.lastValue = NoPath,
     !.commentsBefore = <<>>,
     !.errors = <<>>,
     !.nodes = resetNodes(nodes),
     !.frames = <<NewFrame>>,
     !.status = "value"]

ParseBegin ==
  /\ status = "ready"
  /\ Becomes(ParseBeginStep)

\* A test of the root that is content with any value but null.
rootIsNotNull(type) == type # "null"

\* root.isArray() || root.isObject()
rootIsArrayOrObject(type) == type = "array" \/ type = "object"

\* parse after skipCommentTokens(token) read the token tok.
parseEnd(st, tok) ==
  LET rootType == st.root[<<>>].type
      whole == [type |-> "Error", offsetStart |-> 0, offsetEnd |-> End]
      commented ==
        IF st.collectComments /\ st.commentsBefore # <<>>
        THEN [st EXCEPT !.comments = setComment(st.comments, <<>>, "commentAfter",
                                                st.commentsBefore)]
        ELSE st
      returned(s, r) == [s EXCEPT !.status = "done", !.result = r]
  IN IF /\ features.failIfExtra
        /\ (features.strictRoot \/ tok.type # "Error")
        /\ tok.type # "EndOfStream"
     THEN returned(Journal(st, "Extra non-whitespace after JSON value.", <<>>, tok, -1),
                   FALSE)
     ELSE IF features.strictRoot /\ ~rootIsArrayOrObject(rootType)
     THEN returned(Journal(commented,
                           "A valid JSON document must be either an array or an object value.",
                           <<>>, whole, -1),
                   FALSE)
     ELSE returned(commented, st.successful)

\* One readToken of skipCommentTokens in parse and, after the last one, the
\* rest of parse.
ParseEndStep ==
  LET tok == readToken(current)
      took == Took(Here, tok)
  IN IF commentToSkip(tok)
     THEN took
     ELSE parseEnd(took, tok)

ParseEnd ==
  /\ status = "skip"
  /\ Becomes(ParseEndStep)

\* What a call of parse gave its caller: the document it was called on, how
\* it ended, and the value returned, the journal, the tree and the comments
\* attached to it.
Outcome ==
  [doc |-> doc, status |-> status, result |-> status = "done" /\ result,
   errors |-> errors, root |-> root, comments |-> comments]

\* OurCharReader::parse called once more on the same reader_, after parse
\* returned or threw: a document among `docs` and a null root are its
\* arguments; the reader is as the call before left it.
ParseAgainOn(docs) ==
  /\ status \in {"done", "fatal"}
  /\ doc' \in docs
  /\ root' = [p \in {<<>>} |-> NullNode]
  /\ comments' = [k \in {} |-> <<>>]
  /\ status' = "ready"
  /\ calls' = calls + 1
  /\ earlier' = IF calls = 1 THEN Outcome ELSE earlier
  /\ UNCHANGED <<pastEnd, signedOverflow, features, collectArg, collectComments,
                 current, lastValueEnd, lastValue, commentsBefore, errors, nodes,
                 frames, successful, result>>

\* The state that the code reaches from this one by its next step.
Successor ==
  IF status = "ready" THEN ParseBeginStep
  ELSE IF status = "skip" THEN ParseEndStep
  ELSE CASE Top(Here).pc = "enter" -> ReadValueEnterStep
         [] Top(Here).pc = "token" -> ReadValueTokenStep
         [] Top(Here).pc \in {"objectName", "objectNameComment"} -> ReadObjectNameStep
         [] Top(Here).pc = "objectColon" -> ReadObjectColonStep
         [] Top(Here).pc = "objectValue" -> ReadObjectValueStep
         [] Top(Here).pc = "objectCommaComment" -> ReadObjectCommaCommentStep
         [] Top(Here).pc = "arrayBegin" -> ReadArrayBeginStep
         [] Top(Here).pc = "arrayValue" -> ReadArrayValueStep
         [] Top(Here).pc = "arrayComment" -> ReadArrayCommentStep
         [] Top(Here).pc = "recover" -> RecoverStep

(***************************************************************************)
(* The inputs of the model: a document, the features of the reader, the     *)
(* collectComments argument and the byte that follows the document in       *)
(* memory.                                                                  *)
(***************************************************************************)
MaxLen == 3
MaxStackLimit == 3
MaxNest == 3
MaxMembers == 3
MaxCalls == 3

DefaultStackLimit == 1000

\* CharReaderBuilder::setDefaults
Defaults ==
  [allowComments |-> TRUE, strictRoot |-> FALSE,
   allowDroppedNullPlaceholders |-> FALSE, allowNumericKeys |-> FALSE,
   allowSingleQuotes |-> FALSE, failIfExtra |-> FALSE, rejectDupKeys |-> FALSE,
   allowSpecialFloats |-> FALSE, stackLimit |-> DefaultStackLimit]

\* The features f with every choice of the flags named in `flags`.
Vary(f, flags) ==
  {[n \in DOMAIN f |-> IF n \in flags THEN b[n] ELSE f[n]] : b \in [flags -> BOOLEAN]}

WithLimits(fs, limits) ==
  {[f EXCEPT !.stackLimit = l] : f \in fs, l \in limits}

Has(d, bytes) == \E i \in 1 .. Len(d) : d[i] \in bytes

\* The inputs with the document d and features among fs: the comments are
\* or are not to be collected when d can hold one, a document that ends
\* with CR is or is not followed by LF in memory, and a signed overflow wraps
\* or traps when d can hold a negative number.
Given(d, fs) ==
  /\ doc = d
  /\ features \in fs
  /\ collectArg \in (IF Has(d, {SLASH, SQUOTE}) THEN BOOLEAN ELSE {TRUE})
  /\ pastEnd \in (IF d # <<>> /\ d[Len(d)] = CR THEN {NUL, LF} ELSE {NUL})
  /\ signedOverflow \in (IF Has(d, {MINUS}) THEN {"wraps", "traps"} ELSE {"wraps"})

\* Every document of at most MaxLen bytes over these bytes, with the flags
\* that a byte of the document can bring into play.
Alphabet ==
  {LBRACKET, RBRACKET, LBRACE, RBRACE, COMMA, DQUOTE, DIGIT1, SLASH, STAR, SPACE}

ByteDocs == UNION {[1 .. n -> Alphabet] : n \in 0 .. MaxLen}

FlagsOf(d) ==
  {"strictRoot", "failIfExtra"}
    \cup (IF Has(d, {SLASH}) THEN {"allowComments"} ELSE {})
    \cup (IF Has(d, {COMMA, RBRACKET, RBRACE})
          THEN {"allowDroppedNullPlaceholders"} ELSE {})

ByteInputs ==
  \E d \in ByteDocs :
    Given(d, WithLimits(Vary(Defaults, FlagsOf(d)), {MaxStackLimit}))

\* A value nested in arrays and objects: kinds names the containers from
\* the outermost to the innermost, the value 1 lies in the innermost.
RECURSIVE Nested(_)
Nested(kinds) ==
  IF kinds = <<>> THEN <<DIGIT1>>
  ELSE IF Head(kinds) = "array"
  THEN <<LBRACKET>> \o Nested(Tail(kinds)) \o <<RBRACKET>>
  ELSE <<LBRACE, DQUOTE, LowerK, DQUOTE, COLON>> \o Nested(Tail(kinds)) \o <<RBRACE>>

NestKinds == UNION {[1 .. n -> {"array", "object"}] : n \in 0 .. MaxNest}

NestedInputs ==
  \E k \in NestKinds :
    Given(Nested(k), WithLimits(Vary(Defaults, {"strictRoot"}), 0 .. MaxStackLimit))

\* An object whose members have the keys named by `keys`, in this order;
\* the member i has the value i.
RECURSIVE Members(_, _)
Members(keys, i) ==
  IF i > Len(keys) THEN <<>>
  ELSE (IF i > 1 THEN <<COMMA>> ELSE <<>>)
         \o <<DQUOTE, keys[i], DQUOTE, COLON, DIGIT0 + i>> \o Members(keys, i + 1)

ObjectOf(keys) == <<LBRACE>> \o Members(keys, 1) \o <<RBRACE>>

KeyLists == UNION {[1 .. n -> {LowerK, LowerJ}] : n \in 0 .. MaxMembers}

ObjectInputs ==
  \E k \in KeyLists :
    Given(ObjectOf(k),
          WithLimits(Vary(Defaults, {"rejectDupKeys", "failIfExtra"}), {MaxStackLimit}))

\* The members with the keys `keys`, each with the value 1 and a comma
\* after it.
RECURSIVE CommaMembers(_)
CommaMembers(keys) ==
  IF keys = <<>> THEN <<>>
  ELSE <<DQUOTE>> \o Head(keys) \o <<DQUOTE, COLON, DIGIT1, COMMA>>
         \o CommaMembers(Tail(keys))

\* Objects of at most two members with the key "" or "k" that end with a
\* comma before the `}`.
TrailingCommaInputs ==
  \E keys \in UNION {[1 .. n -> {<<>>, <<LowerK>>}] : n \in 0 .. 2} :
    Given(<<LBRACE>> \o CommaMembers(keys) \o <<RBRACE>>, {Defaults})

\* { "x": 1 } garbage
DocGarbage ==
  <<LBRACE, SPACE, DQUOTE, LowerX, DQUOTE, COLON, SPACE, DIGIT1, SPACE, RBRACE,
    SPACE, LowerG, LowerA, LowerR, LowerB, LowerA, LowerG, LowerE>>

\* [1, 2, , 3]
DocDropped ==
  <<LBRACKET, DIGIT1, COMMA, SPACE, DIGIT2, COMMA, SPACE, COMMA, SPACE, DIGIT3,
    RBRACKET>>

\* The comments /**/ and // to the end of the line.
CommentTexts == {<<SLASH, STAR, STAR, SLASH>>, <<SLASH, SLASH, LF>>}

\* The places of a document a comment can stand at, each as the bytes before
\* it and the bytes after it.
CommentPlaces ==
  LET k == <<DQUOTE, LowerK, DQUOTE>>
      j == <<DQUOTE, LowerJ, DQUOTE>>
  IN { <<<<>>, <<DIGIT1>>>>,
       <<<<DIGIT1>>, <<>>>>,
       <<<<DIGIT1>>, <<DIGIT2>>>>,
       <<<<LBRACKET>>, <<DIGIT1, RBRACKET>>>>,
       <<<<LBRACKET, DIGIT1>>, <<RBRACKET>>>>,
       <<<<LBRACKET, DIGIT1>>, <<COMMA, DIGIT2, RBRACKET>>>>,
       <<<<LBRACKET, DIGIT1, COMMA>>, <<DIGIT2, RBRACKET>>>>,
       <<<<LBRACE>>, k \o <<COLON, DIGIT1, RBRACE>>>>,
       <<<<LBRACE>> \o k, <<COLON, DIGIT1, RBRACE>>>>,
       <<<<LBRACE>> \o k \o <<COLON>>, <<DIGIT1, RBRACE>>>>,
       <<<<LBRACE>> \o k \o <<COLON, DIGIT1>>, <<RBRACE>>>>,
       <<<<LBRACE>> \o k \o <<COLON, DIGIT1>>,
         <<COMMA>> \o j \o <<COLON, DIGIT2, RBRACE>>>>,
       <<<<LBRACE>> \o k \o <<COLON, DIGIT1, COMMA>>,
         j \o <<COLON, DIGIT2, RBRACE>>>> }

CommentInputs ==
  \E place \in CommentPlaces, text \in CommentTexts :
    Given(place[1] \o text \o place[2],
          Vary(Defaults, {"allowComments", "failIfExtra"}))

\* A string of at most MaxLen bytes among the backslash, CR, LF and u.
QuotedInputs ==
  \E body \in UNION {[1 .. n -> {BACKSLASH, CR, LF, LowerU}] : n \in 0 .. MaxLen} :
    Given(<<DQUOTE>> \o body \o <<DQUOTE>>, {Defaults})

\* The \\u escapes of the code units D800, DBFF, DC00, DFFF and 0041.
UnitEscapes ==
  LET esc(a, b, c, d) == <<BACKSLASH, LowerU, a, b, c, d>>
      D == UpperA + 3
  IN { esc(D, DIGIT0 + 8, DIGIT0, DIGIT0), esc(D, UpperA + 1, UpperF, UpperF),
       esc(D, UpperA + 2, DIGIT0, DIGIT0), esc(D, UpperF, UpperF, UpperF),
       esc(DIGIT0, DIGIT0, DIGIT0 + 4, DIGIT1) }

\* A string of one or two \\u escapes, or of one followed by the byte x.
SurrogateInputs ==
  \E first \in UnitEscapes, rest \in UnitEscapes \cup {<<>>, <<LowerX>>} :
    Given(<<DQUOTE>> \o first \o rest \o <<DQUOTE>>, {Defaults})

\* Lines that hold nothing or a `]`, ended by CR, LF or CRLF.
LineInputs ==
  \E d \in UNION {[1 .. n -> {CR, LF, RBRACKET}] : n \in 0 .. MaxLen + 1} :
    Given(d, {Defaults})

\* The starts of numbers and of -Infinity: a sign, I, a digit, a point and
\* an exponent, in every order.
SignInputs ==
  \E d \in UNION {[1 .. n -> {MINUS, UpperI, DIGIT1, DOT, LowerE}] : n \in 1 .. MaxLen} :
    Given(d, Vary(Defaults, {"allowSpecialFloats"}))

\* The numeral `limit` with its last digit replaced by `digit`.
LastDigit(limit, digit) == [limit EXCEPT ![Len(limit)] = digit]

\* Numerals whose last digit decides how decodeNumber ends: the two limits,
\* one digit, a numeral that passes maxLargestUInt / 10 before its last
\* digit, and one that reaches it with two digits left.
NumberLimits ==
  { maxInt, maxLargestUInt, <<0>>,
    [maxLargestUInt EXCEPT ![Len(maxLargestUInt) - 1] = 2],
    Append(maxLargestUInt, 0) }

\* Integers around these limits, with and without a sign, with and without
\* leading zeros.
NumberInputs ==
  \E limit \in NumberLimits, digit \in 0 .. 9,
     sign \in {<<>>, <<MINUS>>}, zeros \in {<<>>, <<DIGIT0, DIGIT0>>} :
    Given(sign \o zeros \o NumText(LastDigit(limit, digit)), {Defaults})

\* 12345678901234567890
DocTwentyDigits ==
  <<DIGIT1, DIGIT2, DIGIT3, DIGIT0 + 4, DIGIT0 + 5, DIGIT0 + 6, DIGIT0 + 7,
    DIGIT0 + 8, DIGIT9, DIGIT0, DIGIT1, DIGIT2, DIGIT3, DIGIT0 + 4, DIGIT0 + 5,
    DIGIT0 + 6, DIGIT0 + 7, DIGIT0 + 8, DIGIT9, DIGIT0>>

\* { /* c */ "x": 1 } // end
TextC == <<SLASH, STAR, SPACE, LowerA + 2, SPACE, STAR, SLASH>>

TextEnd == <<SLASH, SLASH, SPACE, LowerE, LowerN, LowerA + 3>>

DocCommented ==
  <<LBRACE, SPACE>> \o TextC
    \o <<SPACE, DQUOTE, LowerX, DQUOTE, COLON, SPACE, DIGIT1, SPACE, RBRACE, SPACE>>
    \o TextEnd

\* The bytes between a member and the next one: nothing, a comma, or a
\* token that is neither `,` nor `}`.
MemberFollowers ==
  { <<>>, <<COMMA>>, <<DQUOTE, LowerX, DQUOTE>>, <<DIGIT1>>, <<COLON>>,
    <<LBRACKET>>, <<LowerX>> }

\* {"k":1 gap follower "j":2}
AfterMemberDoc(gap, follower) ==
  <<LBRACE, DQUOTE, LowerK, DQUOTE, COLON, DIGIT1>> \o gap \o follower
    \o <<DQUOTE, LowerJ, DQUOTE, COLON, DIGIT2, RBRACE>>

\* Two members with a comment or nothing after the first, then a follower.
AfterMemberInputs ==
  \E gap \in CommentTexts \cup {<<>>}, follower \in MemberFollowers :
    Given(AfterMemberDoc(gap, follower), Vary(Defaults, {"allowNumericKeys"}))

\* A `'` followed by at most MaxLen + 1 bytes among `'`, `/`, `*`, LF and 1,
\* with single quotes allowed or not.
SingleQuoteInputs ==
  \E body \in UNION {[1 .. n -> {SQUOTE, SLASH, STAR, LF, DIGIT1}] : n \in 0 .. MaxLen + 1} :
    Given(<<SQUOTE>> \o body, Vary(Defaults, {"allowSingleQuotes"}))

\* A string in double or in single quotes whose interior has at most MaxLen
\* bytes among `"`, the backslash, n and x, single quotes being allowed.
StringInputs ==
  \E quote \in {DQUOTE, SQUOTE},
     body \in UNION {[1 .. n -> {DQUOTE, BACKSLASH, LowerN, LowerX}] : n \in 0 .. MaxLen} :
    Given(<<quote>> \o body \o <<quote>>,
          {[Defaults EXCEPT !.allowSingleQuotes = TRUE]})

\* Documents of at most MaxLen + 1 bytes among the byte 0, 1, `[` and `]`.
NulInputs ==
  \E d \in UNION {[1 .. n -> {NUL, DIGIT1, LBRACKET, RBRACKET}] : n \in 1 .. MaxLen + 1} :
    Given(d, Vary(Defaults, {"failIfExtra"}))

Scenarios ==
  \/ Given(DocTwentyDigits, {Defaults})
  \/ Given(DocCommented, {Defaults})
  \/ Given(DocGarbage, Vary(Defaults, {"failIfExtra", "strictRoot"}))
  \/ Given(DocDropped, Vary(Defaults, {"allowDroppedNullPlaceholders", "failIfExtra"}))

Inputs ==
  \/ ByteInputs
  \/ NestedInputs
  \/ ObjectInputs
  \/ TrailingCommaInputs
  \/ CommentInputs
  \/ QuotedInputs
  \/ SurrogateInputs
  \/ LineInputs
  \/ SignInputs
  \/ NumberInputs
  \/ NulInputs
  \/ StringInputs
  \/ SingleQuoteInputs
  \/ AfterMemberInputs
  \/ Scenarios

\* The documents of the readers that are called more than once: `[[1]]`,
\* `[1`, `/**/1` and `1`.
ReuseDocs ==
  { Nested(<<"array", "array">>), <<LBRACKET, DIGIT1>>,
    <<SLASH, STAR, STAR, SLASH, DIGIT1>>, <<DIGIT1>> }

ParseAgain ==
  /\ calls < MaxCalls
  /\ doc \in ReuseDocs
  /\ ParseAgainOn(ReuseDocs)

\* OurReader::OurReader, a null root, and the arguments of the first parse.
Init ==
  /\ Inputs
  /\ calls = 1
  /\ earlier = [doc |-> <<>>, status |-> "none", result |-> FALSE, errors |-> <<>>,
                root |-> [p \in {<<>>} |-> NullNode], comments |-> [k \in {} |-> <<>>]]
  /\ collectComments = FALSE
  /\ current = 0
  /\ lastValueEnd = -1
  /\ lastValue = NoPath
  /\ commentsBefore = <<>>
  /\ errors = <<>>
  /\ nodes = <<>>
  /\ root = [p \in {<<>>} |-> NullNode]
  /\ comments = [k \in {} |-> <<>>]
  /\ frames = <<>>
  /\ status = "ready"
  /\ successful = FALSE
  /\ result = FALSE

Next ==
  \/ ParseBegin
  \/ ReadValueEnter
  \/ ReadValueToken
  \/ ReadObjectName
  \/ ReadObjectColon
  \/ ReadObjectValue
  \/ ReadObjectCommaComment
  \/ ReadArrayBegin
  \/ ReadArrayValue
  \/ ReadArrayComment
  \/ Recover
  \/ ParseEnd
  \/ ParseAgain

Spec == Init /\ [][Next]_vars

(***************************************************************************)
(* Properties.                                                              *)
(***************************************************************************)
Done == status = "done"

Reported(message) == \E i \in 1 .. Len(errors) : errors[i].message = message

\* The offset of the first byte at or after o that is neither whitespace
\* nor part of a comment (// to the end of the line, /* to */), or end_.
RECURSIVE AfterBlank(_)
AfterBlank(o) ==
  LET closes == {q \in o + 2 .. End - 2 : doc[q + 1] = STAR /\ doc[q + 2] = SLASH}
      eols == {q \in o + 2 .. End - 1 : doc[q + 1] \in {LF, CR}}
      least(S) == CHOOSE q \in S : \A r \in S : q <= r
  IN IF o < End /\ IsSpace(doc[o + 1]) THEN AfterBlank(o + 1)
     ELSE IF o + 1 < End /\ doc[o + 1] = SLASH /\ doc[o + 2] = SLASH
     THEN IF eols = {} THEN End ELSE AfterBlank(least(eols) + 1)
     ELSE IF o + 1 < End /\ doc[o + 1] = SLASH /\ doc[o + 2] = STAR /\ closes # {}
     THEN AfterBlank(least(closes) + 2)
     ELSE o

RootIsContainer == root[<<>>].type \in {"array", "object"}

\* readValue read the root value successfully and bytes other than
\* whitespace and comments follow it.
ExtraAfterRoot ==
  /\ Done
  /\ successful
  /\ AfterBlank(root[<<>>].offsetLimit) < End

\* C1, as claimed: with failIfExtra, a document whose root value is followed
\* by a byte that is neither whitespace nor part of a comment makes parse
\* return false with "Extra non-whitespace after JSON value." in the journal,
\* for both values of strictRoot and every kind of the trailing token;
\* without failIfExtra the document parses successfully.
C1_ExtraIsRejected ==
  ExtraAfterRoot =>
    IF features.failIfExtra
    THEN ~result /\ Reported("Extra non-whitespace after JSON value.")
    ELSE (features.strictRoot => RootIsContainer) => result

\* C2: parse returns true if and only if the error journal is empty.
C2_TrueIffJournalEmpty == Done => (result <=> errors = <<>>)

C2_Witness == Done /\ ~result /\ Len(errors) = 1 /\ Len(root[<<>>].val) = 0
                /\ root[<<>>].type = "array" /\ lastValue # NoPath

\* The document is a value 1 nested in arrays and objects.
IsNested == \E k \in NestKinds : doc = Nested(k)

NestKindsOf == CHOOSE k \in NestKinds : doc = Nested(k)

\* The depth of the deepest value of a nested document; the root has depth 1.
NestDepth == Len(NestKindsOf) + 1

\* The offset at which the value of depth n of a nested document starts.
RECURSIVE NestStart(_)
NestStart(n) ==
  IF n <= 1 THEN 0
  ELSE NestStart(n - 1) + (IF NestKindsOf[n - 1] = "array" THEN 1 ELSE 5)

\* C3: a valid document whose deepest value has depth d parses successfully
\* if and only if d <= stackLimit (a root that strictRoot rejects set aside).
\* Otherwise the fatal error is raised at the entry of readValue for the
\* value of depth stackLimit + 1: nodes_ holds stackLimit + 1 values, the
\* cursor stands at the first byte of that value, the value is untouched and
\* the journal is empty.
C3_DepthWithinStackLimit ==
  status \in {"done", "fatal"} /\ IsNested =>
    /\ Done => /\ NestDepth <= features.stackLimit
               /\ result <=> (features.strictRoot => NestDepth > 1)
    /\ status = "fatal" =>
         /\ NestDepth > features.stackLimit
         /\ Len(nodes) = features.stackLimit + 1
         /\ current = NestStart(features.stackLimit + 1)
         /\ root[nodes[Len(nodes)]] = NullNode
         /\ errors = <<>>

C3_Witness ==
  /\ IsNested
  /\ status = "fatal"
  /\ features.stackLimit = 2
  /\ NestDepth = 3
  /\ NestKindsOf = <<"object", "array">>
  /\ current = 6

Terminated == status \in {"done", "fatal", "aborted"}

\* What is left to do at a position of readValue, readObject or readArray
\* before the cursor moves or the call returns.
PcWeight(pc) ==
  CASE pc = "arrayBegin" -> 10
    [] pc = "enter" -> 5
    [] pc = "token" -> 4
    [] pc = "recover" -> 2
    [] OTHER -> 3

RECURSIVE FramesWeight(_)
FramesWeight(fs) ==
  IF fs = <<>> THEN 0 ELSE PcWeight(Head(fs).pc) + FramesWeight(Tail(fs))

\* The variant of parse in the state st: the bytes between the cursor and
\* end_ first, then the work that the calls in progress have left at this
\* cursor.
Variant(st) ==
  LET unit == 16 * (End + 2)
      work == CASE st.status = "ready" -> unit - 1
                [] st.status = "value" -> 2 + FramesWeight(st.frames)
                [] st.status = "skip" -> 1
                [] OTHER -> 0
      cursor == IF st.status = "ready" THEN 0 ELSE st.current
  IN (End - cursor) * unit + work

\* C4: for every document and every combination of the features parse
\* terminates.  Until parse has returned or raised the fatal error, its next
\* step decreases the variant, which is never negative: a token read away
\* from end_ moves the cursor towards end_ (a dropped null placeholder
\* leaves it where the delimiter starts, never before the place it was read
\* from), and a token read at end_ ends the loop that read it.
C4_ParseTerminates ==
  ~Terminated => 0 <= Variant(Successor) /\ Variant(Successor) < Variant(Here)

\* parse has returned after a dropped null placeholder took the cursor back
\* and recoverFromError skipped to the end of the document.
C4_Witness ==
  /\ Done
  /\ features.allowDroppedNullPlaceholders
  /\ ~result
  /\ current = End
  /\ <<ElementStep(0)>> \in DOMAIN root
  /\ root[<<ElementStep(0)>>].type = "null"
  /\ root[<<ElementStep(0)>>].offsetLimit = 1

\* The document is an object of members with one-byte keys, the member i
\* holding the value i.
IsObjectOfKeys == \E k \in KeyLists : doc = ObjectOf(k)

KeysOf == CHOOSE k \in KeyLists : doc = ObjectOf(k)

\* The places of the keys that equal an earlier key of the object.
Repeats(keys) == {j \in 1 .. Len(keys) : \E i \in 1 .. j - 1 : keys[i] = keys[j]}

LastOf(keys, key) ==
  CHOOSE i \in 1 .. Len(keys) :
    keys[i] = key /\ \A j \in i + 1 .. Len(keys) : keys[j] # key

\* C5: with rejectDupKeys, an object in which a key equals an earlier key
\* makes parse return false with "Duplicate key: '<key>'" in the journal,
\* <key> being the first key that repeats; without rejectDupKeys, and for
\* an object without a repeated key, parse returns true and every member
\* holds the value of the last occurrence of its key.
C5_DuplicateKeys ==
  Done /\ IsObjectOfKeys =>
    LET keys == KeysOf
        repeats == Repeats(keys)
        first == CHOOSE j \in repeats : \A i \in repeats : j <= i
    IN IF features.rejectDupKeys /\ repeats # {}
       THEN /\ ~result
            /\ \E e \in 1 .. Len(errors) :
                 /\ errors[e].message = "Duplicate key: '<key>'"
                 /\ errors[e].arg = <<keys[first]>>
       ELSE /\ result
            /\ \A i \in 1 .. Len(keys) :
                 LET member == <<MemberStep(<<keys[i]>>)>> IN
                 /\ member \in DOMAIN root
                 /\ root[member].type = "int"
                 /\ root[member].val = <<DIGIT0 + LastOf(keys, keys[i])>>

C5_Witness ==
  /\ Done
  /\ doc = ObjectOf(<<LowerK, LowerJ, LowerK>>)
  /\ features.rejectDupKeys
  /\ ~result
  /\ Len(errors) = 1
  /\ errors[1].message = "Duplicate key: '<key>'"
  /\ errors[1].arg = <<LowerK>>
  /\ root[<<MemberStep(<<LowerK>>)>>].val = <<DIGIT1>>

\* The offsets at or after o at which a comment starts outside a string:
\* // up to the end of the line or of the document, /* up to the next */.
RECURSIVE CommentStarts(_, _)
CommentStarts(o, inString) ==
  LET closes == {q \in o + 2 .. End - 2 : doc[q + 1] = STAR /\ doc[q + 2] = SLASH}
      eols == {q \in o + 2 .. End - 1 : doc[q + 1] \in {LF, CR}}
      least(S) == CHOOSE q \in S : \A r \in S : q <= r
      two(c) == o + 1 < End /\ doc[o + 1] = SLASH /\ doc[o + 2] = c
  IN IF o >= End THEN {}
     ELSE IF inString
     THEN IF doc[o + 1] = BACKSLASH THEN CommentStarts(o + 2, TRUE)
          ELSE CommentStarts(o + 1, doc[o + 1] # DQUOTE)
     ELSE IF doc[o + 1] = DQUOTE THEN CommentStarts(o + 1, TRUE)
     ELSE IF two(SLASH)
     THEN {o} \cup (IF eols = {} THEN {} ELSE CommentStarts(least(eols) + 1, FALSE))
     ELSE IF two(STAR) /\ closes # {}
     THEN {o} \cup CommentStarts(least(closes) + 2, FALSE)
     ELSE CommentStarts(o + 1, FALSE)

\* C6, as claimed: with allowComments false a document with a comment
\* outside a string, before the root value or inside it (before a value,
\* before a member name, after a member value, after an array element),
\* fails to parse.
C6_CommentsRejected ==
  Done /\ ~features.allowComments
       /\ (\E o \in CommentStarts(0, FALSE) : o < root[<<>>].offsetLimit)
    => ~result

\* The elements of the root array, from the element 0 on, as <<type, val>>.
RECURSIVE RootElements(_)
RootElements(i) ==
  IF <<ElementStep(i)>> \in DOMAIN root
  THEN <<<<root[<<ElementStep(i)>>].type, root[<<ElementStep(i)>>].val>>>>
         \o RootElements(i + 1)
  ELSE <<>>

\* C7: with allowDroppedNullPlaceholders, a readValue whose token is `,`,
\* `]` or `}` makes its value null, leaves the cursor at that delimiter (one
\* byte before the end of the token), appends no error and returns true to
\* the array, the object or parse that called it; `[1, 2, , 3]` then parses
\* to the array [1, 2, null, 3].  Without the flag `[1, 2, , 3]` fails with
\* "Syntax error: value, object or array expected."
C7_DroppedNullPlaceholders ==
  /\ status = "value" /\ Top(Here).pc = "token"
       /\ features.allowDroppedNullPlaceholders
       /\ At(skipSpaces(current)) \in {COMMA, RBRACKET, RBRACE}
     => LET slot == currentValue(Here)
            delimiter == skipSpaces(current)
            after == Successor
        IN /\ after.current = delimiter
           /\ after.root[slot].type = "null"
           /\ after.errors = errors
           /\ IF Len(frames) = 1
              THEN after.status = "skip" /\ after.successful
              ELSE after.frames[Len(frames) - 1].ok
  /\ Done /\ doc = DocDropped
     => IF features.allowDroppedNullPlaceholders
        THEN /\ result
             /\ root[<<>>].type = "array"
             /\ RootElements(0) = << <<"int", <<DIGIT1>>>>, <<"int", <<DIGIT2>>>>,
                                     <<"null", <<>>>>, <<"int", <<DIGIT3>>>> >>
        ELSE /\ ~result
             /\ Reported("Syntax error: value, object or array expected.")

C7_Witness ==
  /\ Done
  /\ doc = DocDropped
  /\ features.allowDroppedNullPlaceholders
  /\ result
  /\ root[<<ElementStep(2)>>].type = "null"
  /\ root[<<ElementStep(3)>>].val = <<DIGIT3>>

\* C8, as claimed: when parse has returned, every value of the tree has
\* 0 <= offset_start <= offset_limit <= end - begin, in every combination
\* of the features and for every document, one that starts with `,`, `]` or
\* `}` included.
C8_OffsetsWithinDocument ==
  Done =>
    \A p \in DOMAIN root :
      /\ 0 <= root[p].offsetStart
      /\ root[p].offsetStart <= root[p].offsetLimit
      /\ root[p].offsetLimit <= End

\* The 1-based line and column of the offset o, each CR, LF and CRLF that
\* ends at or before o being one line terminator.
LineAndColumn(o) ==
  LET ends == {q \in 1 .. o : \/ doc[q] = LF
                              \/ doc[q] = CR /\ ~(q < End /\ doc[q + 1] = LF)}
      lineStart == IF ends = {} THEN 0 ELSE CHOOSE q \in ends : \A r \in ends : r <= q
  IN [line |-> 1 + Cardinality(ends), column |-> o - lineStart + 1]

\* C9, as claimed: every location of the error journal, the one of the token
\* and the one of the detail when there is one, has line >= 1 and
\* column >= 1 and is the line and column of its offset, which lies in
\* 0 .. end - begin; also for an offset between the CR and the LF of a CRLF.
C9_ErrorLocations ==
  \A i \in 1 .. Len(errors) :
    LET e == errors[i] IN
    /\ e.offsetStart \in 0 .. End
    /\ e.token.line >= 1 /\ e.token.column >= 1
    /\ e.token = LineAndColumn(e.offsetStart)
    /\ e.extraOffset # -1 =>
         /\ e.extraOffset \in 0 .. End
         /\ e.extra.line >= 1 /\ e.extra.column >= 1
         /\ e.extra = LineAndColumn(e.extraOffset)

\* The document is an integer: an optional sign and digits.
IsInteger ==
  /\ doc # <<>>
  /\ \A i \in 2 .. Len(doc) : IsDigit(doc[i])
  /\ IsDigit(doc[1]) \/ (doc[1] = MINUS /\ Len(doc) > 1)

\* The magnitude of an integer document as a numeral.
RECURSIVE Numeral(_)
Numeral(text) ==
  IF text = <<>> THEN <<>>
  ELSE IF Head(text) = MINUS \/ Head(text) = DIGIT0 THEN Numeral(Tail(text))
  ELSE [i \in 1 .. Len(text) |-> text[i] - DIGIT0]

LargestSigned == <<9, 2, 2, 3, 3, 7, 2, 0, 3, 6, 8, 5, 4, 7, 7, 5, 8, 0, 7>>
LargestSignedMagnitude == <<9, 2, 2, 3, 3, 7, 2, 0, 3, 6, 8, 5, 4, 7, 7, 5, 8, 0, 8>>
LargestUnsigned == <<1, 8, 4, 4, 6, 7, 4, 4, 0, 7, 3, 7, 0, 9, 5, 5, 1, 6, 1, 5>>

\* C10, as claimed: an integer document that the integer path of
\* decodeNumber takes (a magnitude of at most 2^63 after a sign, of at most
\* 2^64 - 1 without one) is decoded, readValue returns true to parse and
\* parse returns; the root is a signed integer when the document has a sign
\* or its value is at most 2^63 - 1 and an unsigned integer otherwise, with
\* the value of the document: `9223372036854775807` is the signed maximum
\* and `-9223372036854775808` the signed minimum.
C10_IntegerKind ==
  LET negative == doc[1] = MINUS
      magnitude == Numeral(doc)
      kind == IF negative \/ NumLeq(magnitude, LargestSigned) THEN "int" ELSE "uint"
      text == IF negative /\ magnitude # <<>>
              THEN <<MINUS>> \o NumText(magnitude) ELSE NumText(magnitude)
  IN IsInteger /\ NumLeq(magnitude, IF negative THEN LargestSignedMagnitude
                                    ELSE LargestUnsigned)
     => /\ status # "aborted"
        /\ Done => successful /\ root[<<>>].type = kind /\ root[<<>>].val = text

\* C11, as claimed: the token `12345678901234567890`, 20 digits above the
\* maximum of the widest signed integer, leaves the integer path of
\* decodeNumber for decodeDouble: parse returns true and the root is a
\* double, not an integer.
C11_TwentyDigitsIsDouble ==
  Done /\ doc = DocTwentyDigits =>
    result /\ root[<<>>].type = "real" /\ root[<<>>].type \notin {"int", "uint"}

\* C11, amended: the token `12345678901234567890`, above the maximum of the
\* widest signed integer and at most the maximum of the widest unsigned
\* integer (2^64 - 1), stays on the integer path of decodeNumber: parse
\* returns true and the root is an unsigned integer of that value, not a
\* double.
C11_TwentyDigitsIsUnsigned ==
  Done /\ doc = DocTwentyDigits =>
    result /\ root[<<>>].type = "uint" /\ root[<<>>].val = DocTwentyDigits

C11_Witness ==
  /\ Done
  /\ doc = DocTwentyDigits
  /\ result
  /\ root[<<>>].type = "uint"
  /\ root[<<>>].offsetLimit = 20

LowSurrogateFirst == HighSurrogateLast + 1
LowSurrogateLast == LowSurrogateFirst + 1023

\* The document is one string token: a quote, a body, the closing quote.
IsStringDoc ==
  /\ Len(doc) >= 2
  /\ doc[1] = DQUOTE
  /\ readString(1) = <<TRUE, End>>

\* The code unit of the escape \\uXXXX that starts at o and ends at or
\* before e, or -1 when no such escape starts there.
UnitAt(o, e) ==
  IF /\ o + 6 <= e
     /\ doc[o + 1] = BACKSLASH /\ doc[o + 2] = LowerU
     /\ \A i \in 3 .. 6 : HexValue(doc[o + i]) >= 0
  THEN ((HexValue(doc[o + 3]) * 16 + HexValue(doc[o + 4])) * 16
          + HexValue(doc[o + 5])) * 16 + HexValue(doc[o + 6])
  ELSE -1

\* The bytes [o, e) hold a \\uXXXX in [D800, DBFF] that no \\uYYYY in
\* [DC00, DFFF] follows at once, or a \\uXXXX in [DC00, DFFF] that is not the
\* second half of such a pair.
RECURSIVE HasLoneSurrogate(_, _)
HasLoneSurrogate(o, e) ==
  LET u == UnitAt(o, e)
      v == UnitAt(o + 6, e)
  IN IF o >= e THEN FALSE
     ELSE IF doc[o + 1] # BACKSLASH THEN HasLoneSurrogate(o + 1, e)
     ELSE IF u < 0 THEN HasLoneSurrogate(o + 2, e)
     ELSE IF u >= HighSurrogateFirst /\ u <= HighSurrogateLast
     THEN IF v >= LowSurrogateFirst /\ v <= LowSurrogateLast
          THEN HasLoneSurrogate(o + 12, e)
          ELSE TRUE
     ELSE IF u >= LowSurrogateFirst /\ u <= LowSurrogateLast THEN TRUE
     ELSE HasLoneSurrogate(o + 6, e)

\* C12, as claimed: decodeString reports an error for every unpaired or
\* mismatched surrogate escape: a string with a \\uXXXX in [D800, DBFF] that
\* is not followed at once by a \\uYYYY in [DC00, DFFF], or with a \\uXXXX in
\* [DC00, DFFF] that is not the second half of such a pair, does not decode:
\* parse returns false with an error in the journal.
C12_LoneSurrogatesRejected ==
  Done /\ IsStringDoc /\ HasLoneSurrogate(1, End - 1) =>
    ~result /\ errors # <<>>

\* The comment attached to the value at `path` with `placement`, or <<>>.
CommentOf(path, placement) ==
  IF <<path, placement>> \in DOMAIN comments THEN comments[<<path, placement>>]
  ELSE <<>>

\* C13, as claimed: `{ /* c */ "x": 1 } // end` with the default features,
\* the comments collected, parses successfully with x = 1; `/* c */` is
\* attached with the placement Before to the member value 1 and `// end` is
\* attached to the root with the placement After, not AfterOnSameLine.
C13_CommentPlacements ==
  Done /\ doc = DocCommented /\ features = Defaults /\ collectArg =>
    LET x == <<MemberStep(<<LowerX>>)>> IN
    /\ result
    /\ x \in DOMAIN root
    /\ root[x].type = "int" /\ root[x].val = <<DIGIT1>>
    /\ CommentOf(x, "commentBefore") = TextC
    /\ CommentOf(<<>>, "commentAfter") = TextEnd
    /\ CommentOf(<<>>, "commentAfterOnSameLine") = <<>>

\* C13, amended: `{ /* c */ "x": 1 } // end` with the default features,
\* the comments collected, parses successfully with x = 1; `/* c */` is
\* attached with the placement Before to the member value 1 and `// end`,
\* which follows the root on its line, is attached to the root with the
\* placement AfterOnSameLine; the root gets no comment with the placement
\* After.
C13_TrailingCommentOnSameLine ==
  Done /\ doc = DocCommented /\ features = Defaults /\ collectArg =>
    LET x == <<MemberStep(<<LowerX>>)>> IN
    /\ result
    /\ x \in DOMAIN root
    /\ root[x].type = "int" /\ root[x].val = <<DIGIT1>>
    /\ CommentOf(x, "commentBefore") = TextC
    /\ CommentOf(<<>>, "commentAfterOnSameLine") = TextEnd
    /\ CommentOf(<<>>, "commentAfter") = <<>>

C13_Witness ==
  /\ Done
  /\ doc = DocCommented
  /\ collectArg
  /\ result
  /\ lastValue = <<>>
  /\ DOMAIN comments = {<<<<MemberStep(<<LowerX>>)>>, "commentBefore">>,
                        <<<<>>, "commentAfterOnSameLine">>}

StrictRootMessage ==
  "A valid JSON document must be either an array or an object value."

\* The last entry of the journal is the error of strictRoot, located at the
\* offset 0 of the document: line 1, column 1.
LastIsStrictRoot(errs) ==
  /\ errs # <<>>
  /\ errs[Len(errs)].message = StrictRootMessage
  /\ errs[Len(errs)].offsetStart = 0
  /\ errs[Len(errs)].token = [line |-> 1, column |-> 1]

\* C14, as claimed: with strictRoot, parse returns true only if the root is
\* an array or an object; when the root is a scalar, parse returns false
\* and the last entry of the journal is "A valid JSON document must be
\* either an array or an object value." at the offset 0 (line 1, column 1).
C14_StrictRoot ==
  Done /\ features.strictRoot =>
    /\ result => RootIsContainer
    /\ ~RootIsContainer => ~result /\ LastIsStrictRoot(errors)

\* C14, amended: with strictRoot, parse returns true only if the root is an
\* array or an object; when the root is a scalar, parse returns false, and
\* the last entry of the journal is the error of strictRoot at the offset 0
\* (line 1, column 1) unless failIfExtra is set and the token that follows
\* the root value is not the end of the document: parse then returns as
\* soon as it has appended "Extra non-whitespace after JSON value.", which
\* is the last entry.
C14_StrictRootUnlessExtra ==
  LET tok == readToken(current)
      after == Successor
  IN status = "skip" /\ features.strictRoot
       /\ ~(features.allowComments /\ tok.type = "Comment") =>
       /\ after.status = "done"
       /\ after.result => RootIsContainer
       /\ ~RootIsContainer =>
            /\ ~after.result
            /\ IF features.failIfExtra /\ tok.type # "EndOfStream"
               THEN after.errors[Len(after.errors)].message
                      = "Extra non-whitespace after JSON value."
               ELSE LastIsStrictRoot(after.errors)

C14_Witness ==
  /\ Done
  /\ features.strictRoot
  /\ ~features.failIfExtra
  /\ root[<<>>].type = "int"
  /\ ~result
  /\ successful
  /\ Len(errors) = 1
  /\ LastIsStrictRoot(errors)
  /\ End = 3

\* parse has been entered and has read no token yet.
AtFirstToken ==
  status = "value" /\ Len(frames) = 1 /\ Top(Here).pc = "enter"

\* C15: in every sequence of calls of parse on one reader, the outcome of a
\* call (that it returned or raised the fatal error, the value returned, the
\* journal, the tree and the comments attached to it) is the outcome that
\* the first call of a new reader gives for the same document and features:
\* the cursor, the journal, nodes_, commentsBefore_, lastValue_ and
\* lastValueEnd_ that an earlier call left, one that the fatal error ended
\* with values still on nodes_ included, are reset before the first token is
\* read.
C15_CallsAreIndependent ==
  /\ AtFirstToken =>
       /\ current = 0
       /\ errors = <<>>
       /\ nodes = << <<>> >>
       /\ commentsBefore = <<>>
       /\ lastValue = NoPath
       /\ lastValueEnd = -1
  /\ status \in {"done", "fatal"} /\ calls > 1 /\ doc = earlier.doc =>
       Outcome = earlier

\* The call that follows a call ended by the fatal error, with three values
\* left on nodes_, ends as that call did.
C15_Witness ==
  /\ calls = 2
  /\ earlier.status = "fatal"
  /\ Cardinality(DOMAIN earlier.root) = 3
  /\ doc = earlier.doc
  /\ status = "fatal"
  /\ Len(nodes) = 3
  /\ Outcome = earlier

\* A call of readValue is in progress, or the fatal error has just left it.
InReadValue == status \in {"value", "fatal"}

\* C16, as claimed: in every state inside readValue, the one in which the
\* fatal error is raised included, nodes_ is not empty and holds at most
\* stackLimit values, for every stackLimit >= 0.
C16_NodesWithinStackLimit ==
  InReadValue => Len(nodes) >= 1 /\ Len(nodes) <= features.stackLimit

\* C16, amended: in every state inside readValue nodes_ is not empty and
\* holds at most stackLimit + 1 values, for every stackLimit >= 0.  The
\* caller pushes the value before readValue tests the depth: nodes_ holds at
\* most stackLimit values once the test at the entry of readValue has
\* passed, and exactly stackLimit + 1 values in the state in which the fatal
\* error is raised.
C16_NodesWithinStackLimitPlusOne ==
  InReadValue =>
    /\ Len(nodes) >= 1
    /\ Len(nodes) <= features.stackLimit + 1
    /\ status = "value" /\ Top(Here).pc # "enter" => Len(nodes) <= features.stackLimit
    /\ status = "fatal" => Len(nodes) = features.stackLimit + 1

C16_Witness ==
  /\ status = "fatal"
  /\ features.stackLimit = 0
  /\ nodes = << <<>> >>
  /\ current = 0
  /\ End = 3

\* A call of parse has set the cursor and has not been followed by another.
InParse == status # "ready"

\* The code is about to read a token at the cursor.
AtToken ==
  \/ status = "skip"
  \/ status = "value" /\ Top(Here).pc \notin {"enter", "arrayBegin"}

\* C17: begin_ <= current_ <= end_ in every state of a parse, for every
\* document and every combination of the features.  getNextChar at end_
\* returns 0 and leaves the cursor; a token read at the cursor (with match,
\* readNumber and its look-ahead after `-`, readString and the two
\* readers of comments) starts at or after the cursor and ends at or before
\* end_; and the cursor that a dropped null placeholder takes back one byte
\* was at least one byte past begin_, the delimiter having been read.
C17_CursorWithinDocument ==
  /\ InParse => 0 <= current /\ current <= End
  /\ NextCur(End) = End /\ NextChar(End) = NUL
  /\ AtToken =>
       LET tok == readToken(current) IN
       /\ current <= tok.offsetStart
       /\ tok.offsetStart <= tok.offsetEnd
       /\ tok.offsetEnd <= End
       /\ tok.offsetStart < End => tok.offsetStart < tok.offsetEnd
  /\ ~Terminated /\ InParse => 0 <= Successor.current /\ Successor.current <= End

\* A dropped null placeholder has taken the cursor back to begin_.
C17_Witness ==
  /\ status = "skip"
  /\ features.allowDroppedNullPlaceholders
  /\ doc = <<RBRACKET, SPACE, RBRACKET>>
  /\ current = 0
  /\ successful

\* C18, as claimed: when parse has returned true, the cursor is at the
\* first byte after the root value that is neither whitespace nor part of a
\* comment, or at end_ when there is none: without failIfExtra a token that
\* follows the root value is left unread.
C18_CursorAtTrailingToken ==
  Done /\ result => current = AfterBlank(root[<<>>].offsetLimit)

\* The token that skipCommentTokens stops at when it reads from o on: the
\* first token at all when comments are not allowed, the first token that is
\* no comment when they are.
RECURSIVE TokenAfterComments(_)
TokenAfterComments(o) ==
  LET tok == readToken(o) IN
  IF features.allowComments /\ tok.type = "Comment"
  THEN TokenAfterComments(tok.offsetEnd)
  ELSE tok

\* C18, amended: when parse has returned true, the cursor is at the end of
\* the token that follows the root value, whitespace and (when comments are
\* allowed) comments skipped: parse reads that token, so the cursor is at
\* end_ when nothing but whitespace and comments follows the root value, and
\* otherwise past the first byte of the token that follows them: that token
\* has been consumed, as it is for a document with a trailing token parsed
\* without failIfExtra.
C18_CursorPastTrailingToken ==
  Done /\ result =>
    LET tok == TokenAfterComments(root[<<>>].offsetLimit) IN
    /\ current = tok.offsetEnd
    /\ tok.offsetStart = End => current = End
    /\ tok.offsetStart < End => tok.offsetStart < current

C18_Witness ==
  /\ Done
  /\ result
  /\ doc = DocGarbage
  /\ ~features.failIfExtra
  /\ root[<<>>].offsetLimit = 10
  /\ current = 12

\* C19, as claimed: for every token of digits with an optional sign and any
\* number of leading zeros, and max the magnitude of the minimum signed
\* integer after a sign and the maximum unsigned integer without one,
\* decodeNumber stays on the integer path exactly when the magnitude of the
\* token is at most max; the integer it produces is then the value of the
\* token (the accumulator has not passed max and has not wrapped around);
\* every token of a magnitude above max is left to the double path.
C19_IntegerPathIsExact ==
  LET negative == doc[1] = MINUS
      magnitude == Numeral(doc)
      max == IF negative THEN LargestSignedMagnitude ELSE LargestUnsigned
      text == IF negative /\ magnitude # <<>>
              THEN <<MINUS>> \o NumText(magnitude) ELSE NumText(magnitude)
  IN IsInteger =>
       /\ status # "aborted"
       /\ Done =>
            /\ successful
            /\ IF NumLeq(magnitude, max)
               THEN root[<<>>].type \in {"int", "uint"} /\ root[<<>>].val = text
               ELSE root[<<>>].type = "real" /\ root[<<>>].val = doc

\* readObject is about to read a token where a member name is expected,
\* and the token is `}`.
AtObjectEndInNamePosition ==
  /\ status = "value"
  /\ Top(Here).pc \in {"objectName", "objectNameComment"}
  /\ readToken(current).type = "ObjectEnd"

\* The object that readObject is filling has a member.
HasMember ==
  \E q \in DOMAIN root :
    Len(q) = Len(currentValue(Here)) + 1 /\ Below(currentValue(Here), q)

\* C20, as claimed: a `}` where a member name is expected completes the
\* object successfully only when the object has no member so far; once a
\* member has been added, the `}` (a `}` right after a `,` for one) is
\* rejected with "Missing '}' or object member name", whatever the keys of
\* the members are, the empty key "" included.
C20_TrailingCommaRejected ==
  AtObjectEndInNamePosition =>
    LET after == Successor IN
    IF HasMember
    THEN /\ Len(after.errors) = Len(errors) + 1
         /\ after.errors[Len(after.errors)].message
              = "Missing '}' or object member name"
         /\ after.status = "value" /\ Top(after).pc = "recover"
    ELSE /\ after.errors = errors
         /\ IF Len(frames) = 1
            THEN after.status = "skip" /\ after.successful
            ELSE after.frames[Len(frames) - 1].ok

\* C21: in readObject, after a member value and any number of comments, the
\* next token that is no comment must be `,` or `}`: for any other token the
\* object fails with "Missing ',' or '}' in object declaration", so that no
\* object parses successfully with two members that no `,` separates.
C21_MembersSeparatedByComma ==
  Done =>
    \A gap \in CommentTexts \cup {<<>>}, follower \in MemberFollowers :
      doc = AfterMemberDoc(gap, follower) /\ follower # <<COMMA>> =>
        /\ ~result
        /\ Reported("Missing ',' or '}' in object declaration")

\* C22: when allowSingleQuotes is false, every token whose first byte is `'`
\* has the kind Error, whatever bytes follow it (`'/...` and `'*...*/`
\* included), so that a document that begins with `'` never parses
\* successfully.
C22_SingleQuoteIsError ==
  ~features.allowSingleQuotes =>
    /\ AtToken /\ NextChar(skipSpaces(current)) = SQUOTE =>
         readToken(current).type = "Error"
    /\ Done /\ doc # <<>> /\ doc[1] = SQUOTE => ~result

\* The bytes of the interior of a string with each escape of one letter
\* replaced by its character and every other byte copied.
RECURSIVE Unescaped(_)
Unescaped(bytes) ==
  IF bytes = <<>> THEN <<>>
  ELSE IF Head(bytes) = BACKSLASH /\ Len(bytes) >= 2
  THEN <<EscapeByte(bytes[2])>> \o Unescaped(SubSeq(bytes, 3, Len(bytes)))
  ELSE <<Head(bytes)>> \o Unescaped(Tail(bytes))

\* The document begins with a String token that holds no \\u escape.
StartsWithPlainString ==
  /\ doc # <<>>
  /\ doc[1] \in {DQUOTE, SQUOTE}
  /\ readToken(0).type = "String"
  /\ ~Has(Bytes(0, readToken(0).offsetEnd), {LowerU})

\* C23: for every String token, in double or in single quotes, that
\* decodeString decodes without error, the decoded string is the whole
\* interior of the token, between the opening and the closing quote, with
\* each escape sequence replaced by its character and every other byte
\* copied in order; an unescaped `"` inside a string in single quotes is
\* copied and does not end the decoding.
C23_DecodedIsWholeInterior ==
  Done /\ StartsWithPlainString =>
    LET tok == readToken(0) IN
    decodeString(tok).ok =>
      /\ root[<<>>].type = "string"
      /\ root[<<>>].val = Unescaped(Bytes(tok.offsetStart + 1, tok.offsetEnd - 1))

\* The token holds a digit.
HasDigit(tok) ==
  \E i \in tok.offsetStart + 1 .. tok.offsetEnd : IsDigit(doc[i])

\* C24: a token classified Number always holds at least one digit, and a
\* token without a digit (the lone `-`) is never decoded to a number: the
\* parse of the document `-` fails with an error and does not produce the
\* integer 0.
C24_NumberHasDigit ==
  /\ AtToken /\ readToken(current).type = "Number" => HasDigit(readToken(current))
  /\ Done /\ readToken(0).type = "Number" /\ ~HasDigit(readToken(0)) =>
       /\ ~result
       /\ errors # <<>>
       /\ root[<<>>].type \notin {"int", "uint", "real"}

\* The root value is followed by a byte 0 and further bytes that are no
\* spaces.
NulAfterRoot ==
  /\ Len(doc) >= 3
  /\ doc[1] = DIGIT1
  /\ doc[2] = NUL
  /\ \E i \in 3 .. Len(doc) : ~IsSpace(doc[i])

\* C25: readToken yields the kind EndOfStream only when the cursor is at
\* end_ after the spaces: a byte 0 inside the document is not reported as
\* the end of the stream, so that with failIfExtra a document whose root
\* value is followed by a byte 0 and further bytes is rejected, and
\* recoverFromError does not stop at a byte 0 inside the document.
C25_EndOfStreamOnlyAtEnd ==
  /\ AtToken /\ readToken(current).type = "EndOfStream" =>
       skipSpaces(current) = End
  /\ Done /\ features.failIfExtra /\ NulAfterRoot => ~result

=============================================================================
